---- MODULE Spec2Model ----
(***************************************************************************)
(* A model of trezorlib/transport/webusb.py: the WebUsbHandle chunk handle *)
(* (open / close / write_chunk / read_chunk), the WebUsbTransport          *)
(* (constructor, enumerate, find_debug) and the helpers that classify a    *)
(* USB device.  The usb1 bus driver is the environment: every call the     *)
(* code makes into it is logged in io and its outcome is chosen by the     *)
(* environment (a call may raise).                                         *)
(***************************************************************************)
EXTENDS Integers, Sequences, FiniteSets, TLC

VARIABLES
    bus,         \* usb1: the device descriptors the context lists, in order
    context,     \* WebUsbTransport.context: [set, opened] (set = FALSE is None)
    ctxlog,      \* counts of USBContext(), context.open(), atexit.register
    transports,  \* heap of WebUsbTransport objects, by object id
    handles,     \* heap of WebUsbHandle objects, by object id
    conns,       \* usb1: the USBDeviceHandle connections ever returned by device.open()
    io,          \* the bus driver calls issued by the last operation
    ret,         \* outcome of the last operation as the caller sees it
    rd           \* read_chunk's position in its retry loop

vars == <<bus, context, ctxlog, transports, handles, conns, io, ret, rd>>

----------------------------------------------------------------------------
(* Bounds of the model. *)

MaxHandles == 1      \* chunk handles a caller of Spec constructs
MaxTransports == 2   \* Transport objects created in one run
MaxConns == 2        \* connections device.open() hands out in one run
MaxEmpty == 2        \* empty reads the driver returns before its final answer
MaxBus == 2          \* descriptors listed on the bus at once

----------------------------------------------------------------------------
(* Module constants, webusb.py:29-36. *)

DEV_TREZOR1 == <<21324, 1>>          \* (0x534c, 0x0001)
DEV_TREZOR2 == <<4617, 21441>>       \* (0x1209, 0x53c1)
DEV_TREZOR2_BL == <<4617, 21440>>    \* (0x1209, 0x53c0)

INTERFACE == 0
ENDPOINT == 1
DEBUG_INTERFACE == 1
DEBUG_ENDPOINT == 2

CHUNK_SIZE == 64                     \* the literal 64 of write_chunk / read_chunk
DIR_IN == 128                        \* the literal 0x80 of read_chunk
LIBUSB_CLASS_VENDOR_SPEC == 255      \* usb1.libusb1.LIBUSB_CLASS_VENDOR_SPEC
BUS_WIDTH == 3                       \* the width of '%03i' in dev_to_str

----------------------------------------------------------------------------
(* The environment's universe: device descriptors and chunks. *)

Descriptor(vid, pid, cls, busnum, ports) ==
    [vid |-> vid, pid |-> pid, cls |-> cls, busnum |-> busnum, ports |-> ports]

T1 == Descriptor(21324, 1, LIBUSB_CLASS_VENDOR_SPEC, 2, <<1>>)
T2 == Descriptor(4617, 21441, LIBUSB_CLASS_VENDOR_SPEC, 1, <<2, 1>>)
T2BL == Descriptor(4617, 21440, LIBUSB_CLASS_VENDOR_SPEC, 1, <<21>>)
T1HID == Descriptor(21324, 1, 3, 2, <<1>>)     \* class 3: HID, on T1's port
UNSUPPORTED == Descriptor(4617, 1, LIBUSB_CLASS_VENDOR_SPEC, 2, <<3>>)

Descriptors == {T1, T2, T2BL, T1HID, UNSUPPORTED}

Chunk(len, byte) == [i \in 1..len |-> byte]

WriteChunks == {Chunk(l, 0) : l \in {0, 1, 63, 64, 65, 128}} \cup {Chunk(64, 255)}
ReadChunks == {Chunk(l, 0) : l \in {1, 63, 64}} \cup {Chunk(64, 255)}

\* the device never answers: every read returns zero bytes
NoAnswer == [raise |-> FALSE, chunk |-> <<>>]

\* what the driver answers once it stops returning empty reads, if it does
ReadFinals ==
    {[raise |-> FALSE, chunk |-> c] : c \in ReadChunks}
        \cup {[raise |-> TRUE, chunk |-> <<>>]}
        \cup {NoAnswer}

----------------------------------------------------------------------------
(* Results, the driver-call log and the idle read loop. *)

Call(name, target, arg, data, ok) ==
    [call |-> name, target |-> target, arg |-> arg, data |-> data, ok |-> ok]

\* what a call did: the operation, its receiver, its argument, how it
\* ended ("ok" or the exception raised) and what it returned or reported
RetArg(op, obj, arg, status, value) ==
    [op |-> op, obj |-> obj, arg |-> arg, status |-> status, value |-> value]

Ret(op, obj, status, value) == RetArg(op, obj, <<>>, status, value)

RdIdle == [pc |-> "idle", h |-> 0, endpoint |-> 0, n |-> 0, empties |-> 0,
           final |-> NoAnswer]

Idle == rd.pc # "loop"

IsOpen(h) == handles[h].handle # 0

HoldsClaim(h) ==
    /\ IsOpen(h)
    /\ ~conns[handles[h].handle].closed
    /\ handles[h].interface \in conns[handles[h].handle].claimed

----------------------------------------------------------------------------
(* The bus driver's answers (usb1).  A claim is refused while another open  *)
(* connection to the same device holds the interface; a release of an       *)
(* interface the connection does not hold is refused; any call may raise.   *)

DeviceOpenOutcomes ==
    {"none", "raise"} \cup (IF Len(conns) < MaxConns THEN {"handle"} ELSE {})

ClaimOutcomes(cs, c, iface) ==
    IF \E c2 \in 1..Len(cs) :
          /\ c2 # c
          /\ ~cs[c2].closed
          /\ cs[c2].dev = cs[c].dev
          /\ iface \in cs[c2].claimed
    THEN {"raise"}
    ELSE {"ok", "raise"}

ReleaseOutcomes(c, iface) ==
    IF iface \in conns[c].claimed THEN {"ok", "raise"} ELSE {"raise"}

----------------------------------------------------------------------------
(* WebUsbHandle, webusb.py:39-81. *)

\* WebUsbHandle.__init__(device, debug)
NewHandle(device, debug) ==
    [device |-> device,
     interface |-> IF debug THEN DEBUG_INTERFACE ELSE INTERFACE,
     endpoint |-> IF debug THEN DEBUG_ENDPOINT ELSE ENDPOINT,
     count |-> 0,
     handle |-> 0]

\* a caller constructs WebUsbHandle(device, debug) for a listed device
new_handle(dev, debug) ==
    /\ Idle
    /\ Len(handles) < MaxHandles
    /\ handles' = Append(handles, NewHandle(dev, debug))
    /\ ret' = Ret("new_handle", 0, "ok", Len(handles) + 1)
    /\ io' = <<>>
    /\ rd' = RdIdle
    /\ UNCHANGED <<bus, context, ctxlog, transports, conns>>

Platforms == {"linux", "win32"}

\* lines 51-55: the arguments of the IOError of open(); the udev hint is
\* one of them where sys.platform starts with "linux"
OpenError(platform) ==
    IF platform = "linux" THEN <<"Cannot open device", "udev">>
    ELSE <<"Cannot open device">>

\* line 49 rebinds self.handle: the connection it held before, if any, is
\* dropped without release or close.  Whether the runtime finalizes (closes)
\* the dropped object is up to the interpreter: gc says it does, at once.
Finalize(cs, old, gc) ==
    IF old # 0 /\ gc
    THEN [cs EXCEPT ![old].claimed = {}, ![old].closed = TRUE]
    ELSE cs

\* WebUsbHandle.open()
open(h) ==
    /\ Idle
    /\ h \in 1..Len(handles)
    /\ \E o \in DeviceOpenOutcomes, platform \in Platforms,
          gc \in (IF handles[h].handle # 0 THEN BOOLEAN ELSE {FALSE}) :
        LET opened == Call("open", handles[h].device, 0, <<>>, o # "raise")
            old == handles[h].handle
        IN
        CASE o = "raise" ->
                /\ ~gc
                /\ ret' = Ret("open", h, "USBError", <<>>)
                /\ io' = <<opened>>
                /\ UNCHANGED <<handles, conns>>
          [] o = "none" ->
                /\ handles' = [handles EXCEPT ![h].handle = 0]
                /\ ret' = Ret("open", h, "IOError", OpenError(platform))
                /\ io' = <<opened>>
                /\ conns' = Finalize(conns, old, gc)
          [] o = "handle" ->
                LET c == Len(conns) + 1
                    cs == Append(Finalize(conns, old, gc),
                                 [dev |-> handles[h].device,
                                  claimed |-> {}, closed |-> FALSE])
                    iface == handles[h].interface
                IN  /\ handles' = [handles EXCEPT ![h].handle = c]
                    /\ \E k \in ClaimOutcomes(cs, c, iface) :
                        /\ io' = <<opened, Call("claimInterface", c, iface, <<>>, k = "ok")>>
                        /\ IF k = "ok"
                           THEN /\ conns' = [cs EXCEPT ![c].claimed = {iface}]
                                /\ ret' = Ret("open", h, "ok", <<>>)
                           ELSE /\ conns' = cs
                                /\ ret' = Ret("open", h, "USBError", <<>>)
    /\ rd' = RdIdle
    /\ UNCHANGED <<bus, context, ctxlog, transports>>

\* WebUsbHandle.close()
close(h) ==
    /\ Idle
    /\ h \in 1..Len(handles)
    /\ LET c == handles[h].handle
           iface == handles[h].interface
       IN IF c # 0
          THEN \E r \in ReleaseOutcomes(c, iface) :
                 LET released == Call("releaseInterface", c, iface, <<>>, r = "ok") IN
                 IF r = "raise"
                 THEN /\ io' = <<released>>
                      /\ ret' = Ret("close", h, "USBError", <<>>)
                      /\ UNCHANGED <<handles, conns>>
                 ELSE \E k \in {"ok", "raise"} :
                      /\ io' = <<released, Call("close", c, 0, <<>>, k = "ok")>>
                      /\ IF k = "ok"
                         THEN /\ conns' = [conns EXCEPT ![c].claimed = @ \ {iface},
                                                        ![c].closed = TRUE]
                              /\ handles' = [handles EXCEPT ![h].handle = 0]
                              /\ ret' = Ret("close", h, "ok", <<>>)
                         ELSE /\ conns' = [conns EXCEPT ![c].claimed = @ \ {iface}]
                              /\ ret' = Ret("close", h, "USBError", <<>>)
                              /\ UNCHANGED handles
          ELSE /\ handles' = [handles EXCEPT ![h].handle = 0]
               /\ io' = <<>>
               /\ ret' = Ret("close", h, "ok", <<>>)
               /\ UNCHANGED conns
    /\ rd' = RdIdle
    /\ UNCHANGED <<bus, context, ctxlog, transports>>

\* a length check that lets short chunks through
WriteSizeErrorLongOnly(chunk) == Len(chunk) > CHUNK_SIZE

\* line 66: the length check of write_chunk
WriteSizeError(chunk) == Len(chunk) # CHUNK_SIZE

\* a write_chunk that tries a failed transfer once more
write_chunk_retry(h, chunk) ==
    /\ Idle
    /\ h \in 1..Len(handles)
    /\ IF handles[h].handle = 0
       THEN /\ ret' = RetArg("write_chunk", h, chunk, "AssertionError", <<>>)
            /\ io' = <<>>
       ELSE IF WriteSizeError(chunk)
       THEN /\ ret' = RetArg("write_chunk", h, chunk, "TransportException", Len(chunk))
            /\ io' = <<>>
       ELSE \E k1, k2 \in {"ok", "raise"} :
            LET write(k) == Call("interruptWrite", handles[h].handle,
                                 handles[h].endpoint, chunk, k = "ok")
            IN /\ io' = IF k1 = "ok" THEN <<write(k1)>> ELSE <<write(k1), write(k2)>>
               /\ ret' = RetArg("write_chunk", h, chunk,
                                IF "ok" \in {k1, k2} THEN "ok" ELSE "USBError", <<>>)
    /\ rd' = RdIdle
    /\ UNCHANGED <<bus, context, ctxlog, transports, handles, conns>>

\* WebUsbHandle.write_chunk(chunk)
write_chunk(h, chunk) ==
    /\ Idle
    /\ h \in 1..Len(handles)
    /\ IF handles[h].handle = 0
       THEN /\ ret' = RetArg("write_chunk", h, chunk, "AssertionError", <<>>)
            /\ io' = <<>>
       ELSE IF WriteSizeError(chunk)
       THEN /\ ret' = RetArg("write_chunk", h, chunk, "TransportException", Len(chunk))
            /\ io' = <<>>
       ELSE \E k \in {"ok", "raise"} :
            /\ io' = <<Call("interruptWrite", handles[h].handle,
                            handles[h].endpoint, chunk, k = "ok")>>
            /\ ret' = RetArg("write_chunk", h, chunk,
                             IF k = "ok" THEN "ok" ELSE "USBError", <<>>)
    /\ rd' = RdIdle
    /\ UNCHANGED <<bus, context, ctxlog, transports, handles, conns>>

\* the endpoint number as it is, without the device-to-host bit
EndpointOut(endpoint) == endpoint

\* line 72: 0x80 | self.endpoint
EndpointIn(endpoint) ==
    IF (endpoint \div DIR_IN) % 2 = 1 THEN endpoint ELSE endpoint + DIR_IN

\* a length check that lets short buffers through
ReadSizeErrorLongOnly(chunk) == Len(chunk) > CHUNK_SIZE

\* line 79: the length check of read_chunk
ReadSizeError(chunk) == Len(chunk) # CHUNK_SIZE

\* line 75: "if chunk" -- a non-empty buffer ends the loop
Truthy(chunk) == Len(chunk) # 0

\* WebUsbHandle.read_chunk(), lines 71-72: the assertion and the endpoint.
\* The environment fixes what the driver will answer: n empty reads, then
\* a buffer or an error, or empty reads for ever (NoAnswer).
read_chunk(h) ==
    /\ Idle
    /\ h \in 1..Len(handles)
    /\ io' = <<>>
    /\ IF handles[h].handle = 0
       THEN /\ ret' = Ret("read_chunk", h, "AssertionError", <<>>)
            /\ rd' = RdIdle
       ELSE \E n \in 0..MaxEmpty, f \in ReadFinals :
            /\ f = NoAnswer => n = 0
            /\ ret' = Ret("read_chunk", h, "running", <<>>)
            /\ rd' = [pc |-> "loop", h |-> h,
                      endpoint |-> EndpointIn(handles[h].endpoint),
                      n |-> n, empties |-> n, final |-> f]
    /\ UNCHANGED <<bus, context, ctxlog, transports, handles, conns>>

\* io keeps the calls of at most MaxEmpty + 2 turns of the loop: the turns
\* of a read that is never answered are logged up to there and no further
LogCap == 2 * (MaxEmpty + 2)

Logged(log, calls) == IF Len(log) >= LogCap THEN log ELSE log \o calls

\* a loop that gives up once the log is full: a timeout
read_chunk_step_timeout ==
    /\ rd.pc = "loop"
    /\ LET c == handles[rd.h].handle
           raised == rd.empties = 0 /\ rd.final.raise
           chunk == IF rd.empties > 0 THEN <<>> ELSE rd.final.chunk
           read == Call("interruptRead", c, rd.endpoint, chunk, ~raised)
       IN IF raised
          THEN /\ io' = Append(io, read)
               /\ ret' = Ret("read_chunk", rd.h, "USBError", <<>>)
               /\ rd' = [rd EXCEPT !.pc = "done"]
          ELSE IF Truthy(chunk)
          THEN /\ io' = Append(io, read)
               /\ rd' = [rd EXCEPT !.pc = "done"]
               /\ IF ReadSizeError(chunk)
                  THEN ret' = Ret("read_chunk", rd.h, "TransportException", Len(chunk))
                  ELSE ret' = Ret("read_chunk", rd.h, "ok", chunk)
          ELSE IF Len(io) >= LogCap
          THEN /\ io' = io
               /\ ret' = Ret("read_chunk", rd.h, "TimeoutError", <<>>)
               /\ rd' = [rd EXCEPT !.pc = "done"]
          ELSE /\ io' = Logged(io, <<read, Call("sleep", 0, 0, <<>>, TRUE)>>)
               /\ rd' = [rd EXCEPT !.empties = IF @ > 0 THEN @ - 1 ELSE 0]
               /\ UNCHANGED ret
    /\ UNCHANGED <<bus, context, ctxlog, transports, handles, conns>>

\* a loop that retries at once, without the sleep
read_chunk_step_busy ==
    /\ rd.pc = "loop"
    /\ LET c == handles[rd.h].handle
           raised == rd.empties = 0 /\ rd.final.raise
           chunk == IF rd.empties > 0 THEN <<>> ELSE rd.final.chunk
           read == Call("interruptRead", c, rd.endpoint, chunk, ~raised)
       IN IF raised
          THEN /\ io' = Append(io, read)
               /\ ret' = Ret("read_chunk", rd.h, "USBError", <<>>)
               /\ rd' = [rd EXCEPT !.pc = "done"]
          ELSE IF Truthy(chunk)
          THEN /\ io' = Append(io, read)
               /\ rd' = [rd EXCEPT !.pc = "done"]
               /\ IF ReadSizeError(chunk)
                  THEN ret' = Ret("read_chunk", rd.h, "TransportException", Len(chunk))
                  ELSE ret' = Ret("read_chunk", rd.h, "ok", chunk)
          ELSE /\ io' = Logged(io, <<read>>)
               /\ rd' = [rd EXCEPT !.empties = IF @ > 0 THEN @ - 1 ELSE 0]
               /\ UNCHANGED ret
    /\ UNCHANGED <<bus, context, ctxlog, transports, handles, conns>>

\* WebUsbHandle.read_chunk(), lines 73-81: one turn of the loop, and the
\* length check and return once the loop is left.
read_chunk_step ==
    /\ rd.pc = "loop"
    /\ LET c == handles[rd.h].handle
           raised == rd.empties = 0 /\ rd.final.raise
           chunk == IF rd.empties > 0 THEN <<>> ELSE rd.final.chunk
           read == Call("interruptRead", c, rd.endpoint, chunk, ~raised)
       IN IF raised
          THEN /\ io' = Append(io, read)
               /\ ret' = Ret("read_chunk", rd.h, "USBError", <<>>)
               /\ rd' = [rd EXCEPT !.pc = "done"]
          ELSE IF Truthy(chunk)
          THEN /\ io' = Append(io, read)
               /\ rd' = [rd EXCEPT !.pc = "done"]
               /\ IF ReadSizeError(chunk)
                  THEN ret' = Ret("read_chunk", rd.h, "TransportException", Len(chunk))
                  ELSE ret' = Ret("read_chunk", rd.h, "ok", chunk)
          ELSE /\ io' = Logged(io, <<read, Call("sleep", 0, 0, <<>>, TRUE)>>)
               /\ rd' = [rd EXCEPT !.empties = IF @ > 0 THEN @ - 1 ELSE 0]
               /\ UNCHANGED ret
    /\ UNCHANGED <<bus, context, ctxlog, transports, handles, conns>>

----------------------------------------------------------------------------
(* WebUsbTransport, webusb.py:84-138. *)

Versions == {1, 2}

\* get_protocol(handle, want_v2) of trezorlib/transport/protocol.py: the
\* Framing Protocol, of which this layer reads VERSION only.
\* version is the VERSION of the protocol the call returns.
get_protocol(handle, want_v2, version) ==
    [VERSION |-> version, handle |-> handle, want_v2 |-> want_v2]

is_trezor1(dev) == <<dev.vid, dev.pid>> = DEV_TREZOR1

is_trezor2(dev) == <<dev.vid, dev.pid>> = DEV_TREZOR2

\* a comparison of the vendor ID alone
is_trezor2_bl_vendor(dev) == dev.vid = DEV_TREZOR2_BL[1]

is_trezor2_bl(dev) == <<dev.vid, dev.pid>> = DEV_TREZOR2_BL

is_vendor_class(dev) == dev.cls = LIBUSB_CLASS_VENDOR_SPEC

\* str(x) of a non-negative int: its decimal digits, one character each
Digit(d) == <<"0", "1", "2", "3", "4", "5", "6", "7", "8", "9">>[d + 1]

RECURSIVE str(_)
str(n) == IF n < 10 THEN <<Digit(n)>> ELSE Append(str(n \div 10), Digit(n % 10))

\* '%03i' % (n, ): the decimal digits, zero-padded on the left to BUS_WIDTH
Format03i(n) ==
    LET s == str(n)
    IN IF Len(s) >= BUS_WIDTH THEN s
       ELSE [i \in 1..(BUS_WIDTH - Len(s)) |-> "0"] \o s

\* sep.join(parts)
RECURSIVE join(_, _)
join(sep, parts) ==
    IF parts = <<>> THEN <<>>
    ELSE IF Len(parts) = 1 THEN parts[1]
    ELSE parts[1] \o sep \o join(sep, Tail(parts))

\* a dev_to_str that joins the numbers with nothing between them
dev_to_str_unseparated(dev) ==
    join(<<>>, <<Format03i(dev.busnum)>> \o [i \in 1..Len(dev.ports) |-> str(dev.ports[i])])

\* lines 159-160: dev_to_str(dev)
dev_to_str(dev) ==
    join(<<":">>, <<Format03i(dev.busnum)>> \o [i \in 1..Len(dev.ports) |-> str(dev.ports[i])])

\* line 89
PATH_PREFIX == <<"w", "e", "b", "u", "s", "b">>

\* lines 103-104: WebUsbTransport.get_path(), "%s:%s" % (PATH_PREFIX, ...)
get_path(self) == PATH_PREFIX \o <<":">> \o dev_to_str(self.device)

\* a constructor that copies the Chunk Handle it is given
NewTransportCopying(ts, hs, device, handle, debug, protocol) ==
    LET hs2 == IF handle = 0 THEN Append(hs, NewHandle(device, debug))
               ELSE Append(hs, hs[handle])
        h == Len(hs2)
    IN [transports |-> Append(ts, [device |-> device, handle |-> h,
                                   debug |-> debug, protocol |-> protocol]),
        handles |-> hs2]

\* a constructor that resets the Chunk Handle it is given
NewTransportResetting(ts, hs, device, handle, debug, protocol) ==
    LET hs2 == IF handle = 0 THEN Append(hs, NewHandle(device, debug))
               ELSE [hs EXCEPT ![handle].handle = 0]
        h == IF handle = 0 THEN Len(hs2) ELSE handle
    IN [transports |-> Append(ts, [device |-> device, handle |-> h,
                                   debug |-> debug, protocol |-> protocol]),
        handles |-> hs2]

\* WebUsbTransport.__init__(device, handle, debug); handle = 0 is None.
\* Gives the heaps after the construction, the new Transport being last.
NewTransport(ts, hs, device, handle, debug, protocol) ==
    LET hs2 == IF handle = 0 THEN Append(hs, NewHandle(device, debug)) ELSE hs
        h == IF handle = 0 THEN Len(hs2) ELSE handle
    IN [transports |-> Append(ts, [device |-> device, handle |-> h,
                                   debug |-> debug, protocol |-> protocol]),
        handles |-> hs2]

\* the handle __init__ hands to get_protocol
InitHandle(hs, handle) == IF handle = 0 THEN Len(hs) + 1 ELSE handle

\* a caller constructs WebUsbTransport(dev) for a listed device
Construct(dev) ==
    /\ Idle
    /\ Len(transports) < MaxTransports
    /\ \E v \in Versions :
        LET p == get_protocol(InitHandle(handles, 0), is_trezor2(dev), v)
            new == NewTransport(transports, handles, dev, 0, FALSE, p)
        IN /\ transports' = new.transports
           /\ handles' = new.handles
           /\ ret' = Ret("construct", 0, "ok", Len(new.transports))
    /\ io' = <<>>
    /\ rd' = RdIdle
    /\ UNCHANGED <<bus, context, ctxlog, conns>>

\* a branch that takes version 2 for version 1
SharesHandleAbove2(version) == version > 2

\* line 131: protocol versions from 2 on carry the debug session over the
\* Transport's own handle
SharesHandle(version) == version >= 2

\* WebUsbTransport.find_debug()
find_debug(t) ==
    /\ Idle
    /\ t \in 1..Len(transports)
    /\ Len(transports) < MaxTransports
    /\ LET self == transports[t]
           want_v2 == is_trezor2(self.device)
       IN IF SharesHandle(self.protocol.VERSION)
          THEN \E v \in Versions :
                LET p == get_protocol(InitHandle(handles, self.handle), want_v2, v)
                    new == NewTransport(transports, handles, self.device, self.handle, FALSE, p)
                IN /\ transports' = new.transports
                   /\ handles' = new.handles
                   /\ ret' = Ret("find_debug", t, "ok", Len(new.transports))
          ELSE \E v \in Versions :
                LET p == get_protocol(InitHandle(handles, 0), want_v2, v)
                    new == NewTransport(transports, handles, self.device, 0, TRUE, p)
                IN /\ transports' = new.transports
                   /\ handles' = new.handles
                   /\ ret' = Ret("find_debug", t, "ok", Len(new.transports))
    /\ io' = <<>>
    /\ rd' = RdIdle
    /\ UNCHANGED <<bus, context, ctxlog, conns>>

\* What the environment answers for one listed device: what dev.getProduct()
\* does ("ok", the USBErrorNotSupported "notsupported", or another "error")
\* and, if a Transport is made, the VERSION of its protocol.
Answers ==
    {[probe |-> "ok", version |-> v] : v \in Versions}
        \cup {[probe |-> p, version |-> 1] : p \in {"notsupported", "error"}}

\* a scan whose except clause catches every error of the probe
RECURSIVE ScanCatchAll(_, _, _)
ScanCatchAll(i, answers, acc) ==
    IF i > Len(bus) THEN acc
    ELSE LET dev == bus[i] IN
         IF ~(is_trezor1(dev) \/ is_trezor2(dev) \/ is_trezor2_bl(dev))
         THEN ScanCatchAll(i + 1, answers, acc)
         ELSE IF ~is_vendor_class(dev)
         THEN ScanCatchAll(i + 1, answers, acc)
         ELSE LET probed == [acc EXCEPT !.io = Append(@,
                                Call("getProduct", i, answers[i].probe, <<>>, answers[i].probe = "ok"))]
              IN IF answers[i].probe \in {"notsupported", "error"}
                 THEN ScanCatchAll(i + 1, answers, probed)
                 ELSE IF answers[i].probe = "error"
                 THEN [probed EXCEPT !.error = TRUE]
                 ELSE LET p == get_protocol(InitHandle(acc.handles, 0), is_trezor2(dev),
                                            answers[i].version)
                          new == NewTransport(acc.transports, acc.handles, dev, 0, FALSE, p)
                      IN ScanCatchAll(i + 1, answers,
                              [probed EXCEPT !.transports = new.transports,
                                             !.handles = new.handles,
                                             !.devices = Append(@, Len(new.transports))])

\* a scan that hands out again the Transport it made for a device earlier
RECURSIVE ScanReusing(_, _, _)
ScanReusing(i, answers, acc) ==
    IF i > Len(bus) THEN acc
    ELSE LET dev == bus[i] IN
         IF ~(is_trezor1(dev) \/ is_trezor2(dev) \/ is_trezor2_bl(dev))
         THEN ScanReusing(i + 1, answers, acc)
         ELSE IF ~is_vendor_class(dev)
         THEN ScanReusing(i + 1, answers, acc)
         ELSE LET probed == [acc EXCEPT !.io = Append(@,
                                Call("getProduct", i, answers[i].probe, <<>>, answers[i].probe = "ok"))]
                  known == {t \in 1..Len(acc.transports) : acc.transports[t].device = dev}
              IN IF answers[i].probe = "notsupported"
                 THEN ScanReusing(i + 1, answers, probed)
                 ELSE IF answers[i].probe = "error"
                 THEN [probed EXCEPT !.error = TRUE]
                 ELSE IF known # {}
                 THEN ScanReusing(i + 1, answers,
                              [probed EXCEPT !.devices = Append(@, CHOOSE t \in known : TRUE)])
                 ELSE LET p == get_protocol(InitHandle(acc.handles, 0), is_trezor2(dev),
                                            answers[i].version)
                          new == NewTransport(acc.transports, acc.handles, dev, 0, FALSE, p)
                      IN ScanReusing(i + 1, answers,
                              [probed EXCEPT !.transports = new.transports,
                                             !.handles = new.handles,
                                             !.devices = Append(@, Len(new.transports))])

\* lines 113-127: the scan of enumerate from the i-th listed device on.
RECURSIVE Scan(_, _, _)
Scan(i, answers, acc) ==
    IF i > Len(bus) THEN acc
    ELSE LET dev == bus[i] IN
         IF ~(is_trezor1(dev) \/ is_trezor2(dev) \/ is_trezor2_bl(dev))
         THEN Scan(i + 1, answers, acc)
         ELSE IF ~is_vendor_class(dev)
         THEN Scan(i + 1, answers, acc)
         ELSE LET probed == [acc EXCEPT !.io = Append(@,
                                Call("getProduct", i, answers[i].probe, <<>>, answers[i].probe = "ok"))]
              IN IF answers[i].probe = "notsupported"
                 THEN Scan(i + 1, answers, probed)
                 ELSE IF answers[i].probe = "error"
                 THEN [probed EXCEPT !.error = TRUE]
                 ELSE LET p == get_protocol(InitHandle(acc.handles, 0), is_trezor2(dev),
                                            answers[i].version)
                          new == NewTransport(acc.transports, acc.handles, dev, 0, FALSE, p)
                      IN Scan(i + 1, answers,
                              [probed EXCEPT !.transports = new.transports,
                                             !.handles = new.handles,
                                             !.devices = Append(@, Len(new.transports))])

\* lines 108-111: the lazy initialisation of the class-wide context.
\* created / opened say whether USBContext() and context.open() succeed.
InitContext(created, opened) ==
    IF context.set
    THEN [context |-> context, ctxlog |-> ctxlog, error |-> FALSE]
    ELSE IF ~created
    THEN [context |-> context, ctxlog |-> ctxlog, error |-> TRUE]
    ELSE IF ~opened
    THEN [context |-> [set |-> TRUE, opened |-> FALSE],
          ctxlog |-> [ctxlog EXCEPT !.created = @ + 1],
          error |-> TRUE]
    ELSE [context |-> [set |-> TRUE, opened |-> TRUE],
          ctxlog |-> [created |-> ctxlog.created + 1,
                      opened |-> ctxlog.opened + 1,
                      hooks |-> ctxlog.hooks + 1],
          error |-> FALSE]

\* WebUsbTransport.enumerate()
enumerate ==
    /\ Idle
    /\ \E created, opened \in BOOLEAN :
        LET ctx == InitContext(created, opened) IN
        /\ context.set => created /\ opened
        /\ context' = ctx.context
        /\ ctxlog' = ctx.ctxlog
        /\ IF ctx.error
           THEN /\ ret' = Ret("enumerate", 0, "USBError", <<>>)
                /\ io' = <<>>
                /\ UNCHANGED <<transports, handles>>
           ELSE \E usable \in (IF ctx.context.opened THEN {TRUE} ELSE BOOLEAN) :
                IF ~usable
                THEN /\ ret' = Ret("enumerate", 0, "USBError", <<>>)
                     /\ io' = <<Call("getDeviceIterator", 0, 0, <<>>, FALSE)>>
                     /\ UNCHANGED <<transports, handles>>
                ELSE \E answers \in [1..Len(bus) -> Answers] :
                     /\ LET scan == Scan(1, answers,
                                  [transports |-> transports, handles |-> handles,
                                   devices |-> <<>>, error |-> FALSE,
                                   io |-> <<Call("getDeviceIterator", 0, 0, <<>>, TRUE)>>])
                        IN /\ Len(scan.transports) <= MaxTransports
                           /\ io' = scan.io
                           /\ IF scan.error
                              THEN /\ ret' = Ret("enumerate", 0, "USBError", <<>>)
                                   /\ UNCHANGED <<transports, handles>>
                              ELSE /\ ret' = Ret("enumerate", 0, "ok", scan.devices)
                                   /\ transports' = scan.transports
                                   /\ handles' = scan.handles
    /\ rd' = RdIdle
    /\ UNCHANGED <<bus, conns>>

\* the environment: a device is plugged in and listed after the others
attach(dev) ==
    /\ Idle
    /\ Len(bus) < MaxBus
    /\ \A i \in 1..Len(bus) : bus[i] # dev
    /\ bus' = Append(bus, dev)
    /\ ret' = Ret("attach", 0, "ok", <<>>)
    /\ io' = <<>>
    /\ rd' = RdIdle
    /\ UNCHANGED <<context, ctxlog, transports, handles, conns>>

\* the environment: the i-th listed device is unplugged
detach(i) ==
    /\ Idle
    /\ i \in 1..Len(bus)
    /\ bus' = [k \in 1..(Len(bus) - 1) |-> IF k < i THEN bus[k] ELSE bus[k + 1]]
    /\ ret' = Ret("detach", 0, "ok", <<>>)
    /\ io' = <<>>
    /\ rd' = RdIdle
    /\ UNCHANGED <<context, ctxlog, transports, handles, conns>>

----------------------------------------------------------------------------
(* Specifications.                                                          *)
(* Spec: a caller constructs chunk handles over the attached device and     *)
(* drives them.  FairSpec: Spec, in which a read_chunk that is in its loop  *)
(* takes its next turn.  TransportSpec: a caller constructs Transports,     *)
(* derives debug Transports and opens and closes their handles.  EnumSpec:  *)
(* a caller enumerates, again and again, whatever devices are attached.     *)
(* ReplugSpec: devices are plugged in and unplugged between the calls of    *)
(* enumerate.  PathSpec: a caller enumerates and drives the Transports over *)
(* a driver that serves every call.  LeakSpec: a caller opens and closes    *)
(* one chunk handle, and the interpreter may finalize a connection object   *)
(* that open() dropped; in the other specifications it leaves it as it is.  *)

InitProcess ==
    /\ context = [set |-> FALSE, opened |-> FALSE]
    /\ ctxlog = [created |-> 0, opened |-> 0, hooks |-> 0]
    /\ transports = <<>>
    /\ handles = <<>>
    /\ conns = <<>>
    /\ io = <<>>
    /\ ret = Ret("none", 0, "ok", <<>>)
    /\ rd = RdIdle

Init ==
    /\ InitProcess
    /\ bus \in {<<T1>>, <<T2>>}

\* the interpreter leaves a connection that open() dropped as it is
NoFinalize == \A c \in 1..Len(conns) : conns'[c] = conns[c]

Next ==
    \/ \E i \in 1..Len(bus), debug \in BOOLEAN : new_handle(bus[i], debug)
    \/ \E h \in 1..Len(handles) : open(h) /\ NoFinalize
    \/ \E h \in 1..Len(handles) : close(h)
    \/ \E h \in 1..Len(handles), chunk \in WriteChunks : write_chunk(h, chunk)
    \/ \E h \in 1..Len(handles) : read_chunk(h)
    \/ read_chunk_step

Spec == Init /\ [][Next]_vars

FairSpec == Spec /\ WF_vars(read_chunk_step)

NextLeak ==
    \/ \E i \in 1..Len(bus), debug \in BOOLEAN :
            handles = <<>> /\ new_handle(bus[i], debug)
    \/ \E h \in 1..Len(handles) : open(h)
    \/ \E h \in 1..Len(handles) : close(h)

LeakSpec == Init /\ [][NextLeak]_vars

NextTransport ==
    \/ \E i \in 1..Len(bus) : Construct(bus[i])
    \/ \E t \in 1..Len(transports) : find_debug(t)
    \/ \E t \in 1..Len(transports) : open(transports[t].handle) /\ NoFinalize
    \/ \E t \in 1..Len(transports) : close(transports[t].handle)

TransportSpec == Init /\ [][NextTransport]_vars

\* the listings of at most MaxBus devices, no device twice
BusLists ==
    {l \in UNION {[1..n -> Descriptors] : n \in 0..MaxBus} :
        \A i, j \in 1..Len(l) : l[i] = l[j] => i = j}

InitEnum ==
    /\ InitProcess
    /\ bus \in BusLists

NextEnum == enumerate

EnumSpec == InitEnum /\ [][NextEnum]_vars

\* the devices that come and go in ReplugSpec
ReplugDevices == {T1, T2, UNSUPPORTED}

InitReplug ==
    /\ InitProcess
    /\ bus = <<>>

NextReplug ==
    \/ enumerate
    \/ \E dev \in ReplugDevices : attach(dev)
    \/ \E i \in 1..Len(bus) : detach(i)

ReplugSpec == InitReplug /\ [][NextReplug]_vars

\* the listing PathSpec starts from: two devices on one bus whose port lists
\* print the same digits
PathBuses == {<<T2, T2BL>>}

InitPath ==
    /\ InitProcess
    /\ bus \in PathBuses

\* PathSpec: a caller enumerates, derives debug Transports and drives the
\* handles of the Transports over a bus driver that serves every call:
\* scans, opens and closes succeed, one full chunk is written, and a read
\* is answered at once with a full chunk.
FullChunk == [raise |-> FALSE, chunk |-> Chunk(CHUNK_SIZE, 0)]

NextPath ==
    \/ enumerate /\ ret'.status = "ok"
    \/ \E t \in 1..Len(transports) : find_debug(t)
    \/ \E t \in 1..Len(transports) :
            open(transports[t].handle) /\ ret'.status = "ok" /\ NoFinalize
    \/ \E t \in 1..Len(transports) :
            close(transports[t].handle) /\ ret'.status = "ok"
    \/ \E t \in 1..Len(transports) :
            write_chunk(transports[t].handle, Chunk(CHUNK_SIZE, 0))
    \/ \E t \in 1..Len(transports) :
            read_chunk(transports[t].handle) /\ rd'.n = 0 /\ rd'.final = FullChunk
    \/ read_chunk_step

PathSpec == InitPath /\ [][NextPath]_vars

----------------------------------------------------------------------------
(* The claims. *)

LastOp(op) == ret.op = op /\ ret.status # "running"

Calls(name) == SelectSeq(io, LAMBDA e : e.call = name)

\* C1: open() leaves the handle Open only when the device open and the claim
\* of the interface both succeeded; after an open() that fails the handle is
\* Closed, and no handle is Open without holding its interface claim.
C1_OpenOnlyOnSuccess ==
    /\ LastOp("open") => (IsOpen(ret.obj) <=> ret.status = "ok")
    /\ \A h \in 1..Len(handles) : IsOpen(h) => HoldsClaim(h)

\* the handle is in one of the two states of a Chunk Handle: Closed, or
\* Open on a connection that holds the handle's interface
Established(h) == ~IsOpen(h) \/ HoldsClaim(h)

\* C2: close() is idempotent: from either handle state one close() leaves
\* the handle Closed, and a close() right after a close() of the same handle
\* issues no driver call, produces no error and leaves the handle Closed.
C2_CloseIdempotent ==
    /\ []((LastOp("close") /\ Established(ret.obj)) => ~IsOpen(ret.obj))
    /\ [][(LastOp("close") /\ Established(ret.obj)
              /\ ret'.op = "close" /\ ret'.obj = ret.obj)
             => (io' = <<>> /\ ret'.status = "ok" /\ handles'[ret.obj].handle = 0)]_vars

\* C3: close() never raises: for either handle state and whatever the driver
\* answers to releaseInterface and to the connection's close, close() returns
\* normally and the handle is Closed.
C3_CloseNeverRaises ==
    (LastOp("close") /\ Established(ret.obj)) =>
        (ret.status = "ok" /\ ~IsOpen(ret.obj))

\* C4 as claimed: on an Open handle, write_chunk of a chunk whose length is
\* not 64 fails with the chunk-size error reporting the length and issues no
\* interruptWrite; of a 64-byte chunk it issues one interruptWrite of that
\* chunk to the handle's endpoint and succeeds.
C4_WriteChunkSucceeds ==
    (LastOp("write_chunk") /\ HoldsClaim(ret.obj)) =>
        IF Len(ret.arg) # 64
        THEN ret.status = "TransportException" /\ ret.value = Len(ret.arg) /\ io = <<>>
        ELSE /\ io = <<Call("interruptWrite", handles[ret.obj].handle,
                            handles[ret.obj].endpoint, ret.arg, TRUE)>>
             /\ ret.status = "ok"

\* C4, amended: on an Open handle, write_chunk of a chunk whose length is not
\* 64 fails with the chunk-size error reporting the length, issues no
\* interruptWrite and leaves the handle as it was; of a 64-byte chunk it
\* issues exactly one interruptWrite of that chunk to the handle's endpoint,
\* succeeds if that call returns and fails with the call's error if it raises.
C4_WriteChunk ==
    /\ [](  (LastOp("write_chunk") /\ IsOpen(ret.obj)) =>
            IF Len(ret.arg) # 64
            THEN ret.status = "TransportException" /\ ret.value = Len(ret.arg) /\ io = <<>>
            ELSE /\ Len(io) = 1
                 /\ io[1].call = "interruptWrite"
                 /\ io[1].target = handles[ret.obj].handle
                 /\ io[1].arg = handles[ret.obj].endpoint
                 /\ io[1].data = ret.arg
                 /\ ret.status = (IF io[1].ok THEN "ok" ELSE "USBError"))
    /\ [][ret'.op = "write_chunk" => (handles' = handles /\ conns' = conns)]_vars

C4_Witness ==
    /\ LastOp("write_chunk")
    /\ IsOpen(ret.obj)
    /\ HoldsClaim(ret.obj)
    /\ ret.arg = Chunk(64, 255)
    /\ ret.status = "ok"

\* the non-empty buffers the driver returned to the last read_chunk
NonEmptyReads == SelectSeq(io, LAMBDA e : e.call = "interruptRead" /\ e.ok /\ Len(e.data) > 0)

\* C5: every value read_chunk returns has length 64; if the first non-empty
\* buffer interruptRead returns has another length, read_chunk fails with the
\* chunk-size error and returns nothing.
C5_ReadChunkSize ==
    LastOp("read_chunk") =>
        /\ ret.status = "ok" =>
              /\ Len(ret.value) = 64
              /\ Len(NonEmptyReads) = 1
              /\ NonEmptyReads[1].data = ret.value
        /\ (NonEmptyReads # <<>> /\ Len(NonEmptyReads[1].data) # 64) =>
              (ret.status = "TransportException" /\ ret.value = Len(NonEmptyReads[1].data))

C5_Witness ==
    /\ LastOp("read_chunk")
    /\ Len(Calls("interruptRead")) > 1
    /\ Len(NonEmptyReads) = 1
    /\ Len(NonEmptyReads[1].data) = 63
    /\ ret.status = "TransportException"

\* the driver answers the read_chunk in progress with rd.n empty reads and
\* then the 64-byte chunk c
DriverScript(n, c) ==
    /\ rd.n = n
    /\ ~rd.final.raise
    /\ rd.final.chunk = c

\* the driver answers with some empty reads and then a 64-byte chunk
ValidScript == ~rd.final.raise /\ Len(rd.final.chunk) = 64

\* the calls of a read_chunk that met n empty reads: n times an empty read
\* and a sleep, then the read that returned c
RetryTrace(n, c) ==
    /\ Len(io) = 2 * n + 1
    /\ \A k \in 1..n :
        /\ io[2 * k - 1].call = "interruptRead" /\ io[2 * k - 1].data = <<>>
        /\ io[2 * k].call = "sleep"
    /\ io[2 * n + 1].call = "interruptRead" /\ io[2 * n + 1].data = c
    /\ \A k \in 1..Len(io) :
        io[k].call = "interruptRead" =>
            io[k].target = handles[rd.h].handle /\ io[k].arg = rd.endpoint

\* C6: when the driver returns an empty read N times and then a 64-byte
\* chunk, read_chunk eventually returns that chunk, after N+1 interruptRead
\* calls and N sleeps, one sleep after each empty read and none after the
\* last read.
C6_RetryUntilChunk ==
    /\ [](\A n \in 0..MaxEmpty : \A c \in {Chunk(64, 0), Chunk(64, 255)} :
            (rd.pc = "done" /\ DriverScript(n, c)) =>
                /\ ret.status = "ok"
                /\ ret.value = c
                /\ RetryTrace(n, c)
                /\ Len(Calls("interruptRead")) = n + 1
                /\ Len(Calls("sleep")) = n)
    /\ (rd.pc = "loop" /\ ValidScript) ~> (rd.pc = "done" /\ ValidScript /\ ret.status = "ok")

C6_Witness ==
    /\ rd.pc = "done"
    /\ DriverScript(MaxEmpty, Chunk(64, 255))
    /\ ret.status = "ok"
    /\ Len(Calls("sleep")) = MaxEmpty

\* the i-th listed device is a candidate of enumerate: a supported VID/PID
\* and a vendor-specific interface 0
Candidate(i) ==
    /\ <<bus[i].vid, bus[i].pid>> \in {DEV_TREZOR1, DEV_TREZOR2, DEV_TREZOR2_BL}
    /\ bus[i].cls = LIBUSB_CLASS_VENDOR_SPEC

Probed(i, outcome) ==
    \E k \in 1..Len(io) :
        io[k].call = "getProduct" /\ io[k].target = i /\ io[k].arg = outcome

\* the candidates whose probe succeeded in the last enumerate()
Passing == {i \in 1..Len(bus) : Candidate(i) /\ Probed(i, "ok")}

Rank(i) == Cardinality({j \in Passing : j <= i})

\* C7: a successful enumerate() returns exactly one Transport per listed
\* descriptor that passes every filter, in listing order, each bound to its
\* descriptor with Interface Selection Normal, and none for any other
\* descriptor.
C7_EnumerateFilters ==
    (LastOp("enumerate") /\ ret.status = "ok") =>
        /\ Len(ret.value) = Cardinality(Passing)
        /\ \A k, l \in 1..Len(ret.value) : k < l => ret.value[k] < ret.value[l]
        /\ \A i \in Passing :
            LET t == transports[ret.value[Rank(i)]]
            IN /\ t.device = bus[i]
               /\ t.debug = FALSE
               /\ handles[t.handle].device = bus[i]
               /\ handles[t.handle].interface = INTERFACE
               /\ handles[t.handle].endpoint = ENDPOINT
        /\ \A k, l \in 1..Len(ret.value) :
            k # l => transports[ret.value[k]].handle # transports[ret.value[l]].handle
        /\ \A i \in (1..Len(bus)) \ Passing :
            \A k \in 1..Len(ret.value) : transports[ret.value[k]].device # bus[i]

C7_Witness ==
    /\ LastOp("enumerate")
    /\ ret.status = "ok"
    /\ bus = <<T1HID, T2>>
    /\ Len(ret.value) = 1
    /\ transports[ret.value[1]].device = T2

\* C8: if the probe of a candidate raises "not supported", only that
\* candidate is dropped, the scan goes on and no error reaches the caller; if
\* it raises another error, enumerate() stops there, the error reaches the
\* caller and no Transport list is returned.
C8_ProbeErrors ==
    (LastOp("enumerate") /\ io # <<>> /\ io[1].ok) =>
        IF \E i \in 1..Len(bus) : Probed(i, "error")
        THEN /\ ret.status = "USBError"
             /\ ret.value = <<>>
             /\ io[Len(io)].arg = "error"
             /\ Len(SelectSeq(io, LAMBDA e : e.call = "getProduct" /\ e.arg = "error")) = 1
        ELSE /\ ret.status = "ok"
             /\ \A i \in 1..Len(bus) :
                  Candidate(i) => (Probed(i, "ok") \/ Probed(i, "notsupported"))
             /\ Len(ret.value) = Cardinality(Passing)
             /\ \A i \in 1..Len(bus) :
                  Probed(i, "notsupported") =>
                      \A k \in 1..Len(ret.value) : transports[ret.value[k]].device # bus[i]

C8_Witness ==
    /\ LastOp("enumerate")
    /\ ret.status = "ok"
    /\ Len(bus) = 2
    /\ Probed(1, "notsupported")
    /\ Probed(2, "ok")
    /\ Len(ret.value) = 1

C10_ContextOnce ==
    /\ ctxlog.created <= 1
    /\ context.set =>
        /\ context.opened
        /\ ctxlog = [created |-> 1, opened |-> 1, hooks |-> 1]

\* two distinct Chunk Handles select the same (device, interface) pair
SamePair(h1, h2) ==
    /\ h1 # h2
    /\ handles[h1].device = handles[h2].device
    /\ handles[h1].interface = handles[h2].interface

\* C11: at most one Chunk Handle is Open on a (device, interface) pair: while
\* one handle is Open and holds the claim of the pair, no second handle of
\* the pair is Open, and an open() of a second handle, whose claim the driver
\* rejects, does not leave that handle Open.
C11_ExclusiveOpen ==
    \A h1, h2 \in 1..Len(handles) :
        (SamePair(h1, h2) /\ HoldsClaim(h1)) => ~IsOpen(h2)

\* the (bus number, port list) a Transport is built over
Port(t) == <<transports[t].device.busnum, transports[t].device.ports>>

\* C12: a Transport's path is a function of its device's bus number and port
\* list only: Transports over the same (bus number, port list) have equal
\* paths, Transports over different ones have different paths, and no
\* open, close, write_chunk, read_chunk, find_debug or enumerate changes the
\* path of a Transport.
C12_PathIdentity ==
    /\ [](\A t1, t2 \in 1..Len(transports) :
            (Port(t1) = Port(t2)) <=> (get_path(transports[t1]) = get_path(transports[t2])))
    /\ [][\A t \in 1..Len(transports) :
            get_path(transports'[t]) = get_path(transports[t])]_vars

C12_Witness ==
    /\ Len(transports) = 2
    /\ Port(1) # Port(2)
    /\ get_path(transports[1]) = PATH_PREFIX \o <<":", "0", "0", "1", ":", "2", ":", "1">>
    /\ get_path(transports[2]) = PATH_PREFIX \o <<":", "0", "0", "1", ":", "2", "1">>
    /\ LastOp("read_chunk")
    /\ ret.status = "ok"

ChunkIo == {"interruptWrite", "interruptRead"}

\* C13: chunk I/O happens only in state Open: an interruptWrite or
\* interruptRead is issued only by a handle that is Open; write_chunk or
\* read_chunk on a handle that is not Open fails the assertion with no
\* driver call, whatever the chunk; and so does a write_chunk or read_chunk
\* that follows a failed open() of the handle.
C13_IoOnlyWhenOpen ==
    /\ [](\A k \in 1..Len(io) : io[k].call \in ChunkIo => IsOpen(ret.obj))
    /\ [](((LastOp("write_chunk") \/ ret.op = "read_chunk") /\ ~IsOpen(ret.obj)) =>
            (ret.status = "AssertionError" /\ io = <<>>))
    /\ [][(LastOp("open") /\ ret.status # "ok"
              /\ ret'.op \in {"write_chunk", "read_chunk"} /\ ret'.obj = ret.obj)
             => (ret'.status = "AssertionError" /\ io' = <<>>)]_vars

\* every read of the read_chunk in progress returns zero bytes
Silent == rd.final = NoAnswer

\* C14: read_chunk() has no timeout: while every interruptRead returns zero
\* bytes it neither returns nor fails, however many retries have happened,
\* and it leaves its loop only on a read that returned a non-empty buffer or
\* that raised.
C14_NoTimeout ==
    /\ [](rd.pc = "loop" => ret.status = "running")
    /\ [][(rd.pc = "loop" /\ Silent) => (rd'.pc = "loop" /\ ret'.status = "running")]_vars
    /\ [][(rd.pc = "loop" /\ rd'.pc # "loop") =>
            LET last == io'[Len(io')]
            IN /\ last.call = "interruptRead"
               /\ ~last.ok \/ Len(last.data) > 0]_vars

C14_Witness ==
    /\ rd.pc = "loop"
    /\ Silent
    /\ Len(Calls("interruptRead")) = MaxEmpty + 2
    /\ ret.status = "running"

HandleOps == {"open", "close", "write_chunk", "read_chunk"}

\* C15: a Chunk Handle's (interface, endpoint) pair is (0, 1) or (1, 2) from
\* construction on and no operation changes it; every claim and release of
\* the handle names that interface, every write goes to that endpoint and
\* every read to that endpoint with the device-to-host bit set: 0x81 for
\* Normal, 0x82 for Debug.
C15_FixedSelection ==
    /\ [](\A h \in 1..Len(handles) :
            <<handles[h].interface, handles[h].endpoint>> \in {<<0, 1>>, <<1, 2>>})
    /\ [](ret.op \in HandleOps =>
            \A k \in 1..Len(io) :
                LET e == io[k]
                    h == handles[ret.obj]
                IN /\ e.call \in {"claimInterface", "releaseInterface"} =>
                        e.arg = h.interface
                   /\ e.call = "interruptWrite" => e.arg = h.endpoint
                   /\ e.call = "interruptRead" =>
                        e.arg = (IF h.interface = 0 THEN 129 ELSE 130))
    /\ [][\A h \in 1..Len(handles) :
            /\ handles'[h].interface = handles[h].interface
            /\ handles'[h].endpoint = handles[h].endpoint]_vars

C15_Witness ==
    /\ LastOp("read_chunk")
    /\ ret.status = "ok"
    /\ handles[ret.obj].interface = 1
    /\ handles[ret.obj].endpoint = 2
    /\ io[Len(io)].call = "interruptRead"
    /\ io[Len(io)].arg = 130

\* the driver calls of WebUsbHandle other than the read
SingleCalls == {"open", "claimInterface", "releaseInterface", "close", "interruptWrite"}

\* C16: no retry of a failed transfer or open: one open() issues at most one
\* device open and one claimInterface, one write_chunk() at most one
\* interruptWrite; a driver call that raises is the last call of the
\* operation and the operation fails; the only call an operation repeats is
\* the interruptRead that follows a read of zero bytes.
C16_NoRetry ==
    ret.op \in HandleOps =>
        /\ \A name \in SingleCalls : Len(Calls(name)) <= 1
        /\ \A k \in 1..Len(io) :
            ~io[k].ok => (k = Len(io) /\ ret.status \notin {"ok", "running"})
        /\ \A k \in 1..(Len(io) - 1) :
            io[k].call = "interruptRead" => (io[k].ok /\ io[k].data = <<>>)
        /\ (LastOp("open") /\ Calls("open") # <<>> /\ ret.status = "ok") =>
            Len(Calls("claimInterface")) = 1

C16_Witness ==
    /\ LastOp("read_chunk")
    /\ ret.status = "USBError"
    /\ Len(Calls("interruptRead")) = 2
    /\ io[1].data = <<>>
    /\ ~io[Len(io)].ok

\* C17: find_debug() never mutates the receiver: the call leaves every
\* Transport and every Chunk Handle that existed before it as they were (the
\* receiver's device, handle reference, debug flag, handle state and
\* interface / endpoint among them), issues no bus driver call, changes no
\* connection, and returns a Transport that did not exist before.
C17_FindDebugFrame ==
    [][ret'.op = "find_debug" =>
        /\ ret'.obj \in 1..Len(transports)
        /\ \A t \in 1..Len(transports) : transports'[t] = transports[t]
        /\ \A h \in 1..Len(handles) : handles'[h] = handles[h]
        /\ conns' = conns
        /\ io' = <<>>
        /\ ret'.status = "ok"
        /\ ret'.value = Len(transports) + 1
        /\ Len(transports') = Len(transports) + 1
        /\ ret'.value # ret'.obj]_vars

C17_Witness ==
    /\ LastOp("find_debug")
    /\ transports[ret.obj].protocol.VERSION = 2
    /\ HoldsClaim(transports[ret.obj].handle)
    /\ transports[ret.value].handle = transports[ret.obj].handle

\* the devices of the Transports a successful enumerate() returned, in order
Listed == [k \in 1..Len(ret.value) |-> transports[ret.value[k]].device]

\* the listed devices that pass every filter and whose probe succeeded, in
\* listing order
PassingDevices ==
    LET idx == SelectSeq([i \in 1..Len(bus) |-> i], LAMBDA i : i \in Passing)
    IN [k \in 1..Len(idx) |-> bus[idx[k]]]

\* C18: each enumerate() is a fresh scan of the bus as it is listed at the
\* call: a successful call returns the devices then listed that pass the
\* filters and the probe, in order, so a device no longer listed is absent
\* and a newly attached one is present, whatever earlier calls returned; and
\* every Transport and Chunk Handle it returns was created by this call.
C18_FreshScan ==
    [][(ret'.op = "enumerate" /\ ret'.status = "ok") =>
        /\ bus' = bus
        /\ Listed' = PassingDevices'
        /\ \A k \in 1..Len(ret'.value) :
            /\ ret'.value[k] > Len(transports)
            /\ ret'.value[k] <= Len(transports')
            /\ transports'[ret'.value[k]].handle > Len(handles)
        /\ \A t \in 1..Len(transports) : transports'[t] = transports[t]]_vars

C18_Witness ==
    /\ LastOp("enumerate")
    /\ ret.status = "ok"
    /\ Len(transports) = 2
    /\ transports[1].device = T1
    /\ bus = <<UNSUPPORTED, T2>>
    /\ ret.value = <<2>>
    /\ transports[2].device = T2

\* C19: no connection leaks through a Chunk Handle: once a close() of the
\* handle has succeeded, no connection that an open() of the handle obtained
\* and claimed the interface on is left unreleased and open, open() calls on
\* the handle while it was Open included.  (LeakSpec has one Chunk Handle:
\* every connection is one that its open() calls obtained.)
C19_NoLeak ==
    (LastOp("close") /\ ret.status = "ok") =>
        \A c \in 1..Len(conns) : conns[c].closed \/ conns[c].claimed = {}

\* the Transports a and b are bound to one Chunk Handle object
Alias(a, b) == transports[a].handle = transports[b].handle

\* C20: for VERSION >= 2 the receiver and the Transport find_debug() returns
\* are bound to one Chunk Handle, for good: in every state two Transports so
\* bound see the same handle state, whichever of them the handle was opened
\* or closed through.  For VERSION 1 the returned Transport has a Chunk
\* Handle of its own, and an open() or close() of one handle leaves every
\* other handle as it was.
C20_Aliasing ==
    /\ [][ret'.op = "find_debug" =>
            LET r == transports'[ret'.obj]
                n == transports'[ret'.value]
            IN IF r.protocol.VERSION >= 2
               THEN /\ n.handle = r.handle
                    /\ handles' = handles
               ELSE /\ n.handle > Len(handles)
                    /\ n.handle # r.handle
                    /\ handles'[n.handle].handle = 0]_vars
    /\ [][\A t \in 1..Len(transports) :
            transports'[t].handle = transports[t].handle]_vars
    /\ [](\A a, b \in 1..Len(transports) :
            Alias(a, b) => (IsOpen(transports[a].handle) <=> IsOpen(transports[b].handle)))
    /\ [][ret'.op \in {"open", "close"} =>
            \A h \in 1..Len(handles) : h # ret'.obj => handles'[h] = handles[h]]_vars

C20_Witness ==
    /\ Len(transports) = 2
    /\ transports[1].protocol.VERSION = 2
    /\ Alias(1, 2)
    /\ LastOp("close")
    /\ ret.status = "ok"
    /\ io # <<>>
    /\ ~IsOpen(transports[1].handle)
    /\ ~IsOpen(transports[2].handle)

====
